---- MODULE Spec2Model ----
(***************************************************************************)
(* Model of FindEmailCSV.py (EmailFinderApp): the SHA-256 sidecar          *)
(* workflow, the chunked regex extraction run by worker threads, and the   *)
(* save of the shared result list self.emails.                             *)
(*                                                                         *)
(* Python lists are objects: self.emails is a reference into `heap`, and   *)
(* a worker's `self.emails.extend(...)` loads the reference first and      *)
(* mutates the referenced list afterwards.  Each action of a worker is one *)
(* access to shared state (attribute load/store or list mutation, atomic   *)
(* under the interpreter lock) together with the thread-local code around  *)
(* it.  Calls on widgets made by a worker are executed by the UI thread's *)
(* event loop, between UI callbacks or inside a modal dialog.  A sha256    *)
(* hexdigest is an opaque collision-free token of the bytes read.          *)
(***************************************************************************)
EXTENDS Integers, Sequences, FiniteSets, TLC

\* ------------------------------------------------------------------ bounds
\* open_file may start at most MaxRuns worker threads in one behaviour
MaxRuns == 2

Runs == 1..MaxRuns

\* ------------------------------------------------------- the email pattern
Lower == {"a","b","c","d","e","f","g","h","i","j","k","l","m",
          "n","o","p","q","r","s","t","u","v","w","x","y","z"}
Upper == {"A","B","C","D","E","F","G","H","I","J","K","L","M",
          "N","O","P","Q","R","S","T","U","V","W","X","Y","Z"}
Digit == {"0","1","2","3","4","5","6","7","8","9"}

\* [a-zA-Z0-9._-]
LocalClass == Lower \cup Upper \cup Digit \cup {".", "_", "-"}

\* [a-zA-Z0-9_-]
TldClass == Lower \cup Upper \cup Digit \cup {"_", "-"}

\* first position >= i of text that is past the end or not in class cls
RECURSIVE RunEnd(_, _, _)
RunEnd(text, i, cls) ==
    IF i > Len(text) \/ text[i] \notin cls THEN i
    ELSE RunEnd(text, i + 1, cls)

MaxOf(S) == CHOOSE m \in S : \A n \in S : n <= m

\* email_pattern tried at position i: the position just past the match the
\* backtracking engine returns (greedy quantifiers), or 0 when none starts at i
MatchEnd(text, i) ==
    LET at == RunEnd(text, i, LocalClass)
    IN  IF at = i \/ at > Len(text) \/ text[at] # "@" THEN 0
        ELSE LET k == RunEnd(text, at + 1, LocalClass)
                 dots == {d \in (at + 2)..(k - 1) :
                            /\ text[d] = "."
                            /\ RunEnd(text, d + 1, TldClass) - (d + 1) >= 2}
             IN  IF dots = {} THEN 0
                 ELSE RunEnd(text, MaxOf(dots) + 1, TldClass)

\* re.findall from position p: leftmost non-overlapping matches, in order
RECURSIVE FindAllFrom(_, _)
FindAllFrom(text, p) ==
    IF p > Len(text) THEN << >>
    ELSE LET e == MatchEnd(text, p)
         IN  IF e = 0 THEN FindAllFrom(text, p + 1)
             ELSE << SubSeq(text, p, e - 1) >> \o FindAllFrom(text, e)

findall(text) == FindAllFrom(text, 1)

\* ------------------------------------------------------------ list helpers
ToSet(s) == {s[i] : i \in 1..Len(s)}

NoDuplicates(s) == \A i, j \in 1..Len(s) : s[i] = s[j] => i = j

\* list(set(xs)): the distinct elements of xs in any order
ListsOfSet(xs) ==
    LET S == ToSet(xs)
        n == Cardinality(S)
    IN  {f \in [1..n -> S] : \A i, j \in 1..n : f[i] = f[j] => i = j}

\* "\n".join(xs)
RECURSIVE join(_)
join(xs) ==
    IF Len(xs) = 0 THEN << >>
    ELSE IF Len(xs) = 1 THEN xs[1]
    ELSE xs[1] \o << "\n" >> \o join(Tail(xs))

\* ---------------------------------------------------------- the file system
\* text_data of the chunks of the source files the dialog can return
AliceTwice == << "a","_","1","@","b",".","c","o",".","u","k"," ",
                "a","_","1","@","b",".","c","o",".","u","k" >>
AliceAgain == << "n",","," ","a","_","1","@","b",".","c","o",".","u","k",".","." >>
CarolTwice == << "q","+","c","@","d",".","e","e",",","c","@","d",".","e","e",".","f" >>
DaveRow    == << "v","@","w",".","z","z" >>

\* per path: can it be opened, the chunks it yields, and the index of the
\* chunk at which reading raises (0: reading never raises).  b holds bytes
\* that cannot be decoded after its first chunk; c and e cannot be opened
Files ==
    [ a |-> [readable |-> TRUE,  chunks |-> << AliceTwice, AliceAgain >>, failAt |-> 0],
      b |-> [readable |-> TRUE,  chunks |-> << CarolTwice >>,             failAt |-> 2],
      c |-> [readable |-> FALSE, chunks |-> << >>,                        failAt |-> 0],
      d |-> [readable |-> TRUE,  chunks |-> << DaveRow >>,                failAt |-> 0],
      e |-> [readable |-> FALSE, chunks |-> << >>,                        failAt |-> 0] ]

Paths == DOMAIN Files

\* re.findall(email_pattern, text_data) for every chunk of every file
ChunkMatches ==
    [p \in Paths |->
        [i \in 1..Len(Files[p].chunks) |-> findall(Files[p].chunks[i])]]

\* answer of a file dialog that was cancelled
Cancelled == ""

\* the byte contents a digest is ever taken of: the readable files as they
\* are now, and d as it was when its sidecar was written
OldBytesOfD == << AliceTwice >>
Contents ==
    << Files["a"].chunks, Files["b"].chunks, Files["d"].chunks, OldBytesOfD >>

\* hashlib.sha256(f.read()).hexdigest(): a text of one token that stands
\* for the 64 hex digits; different contents have different digests
hexdigest(data) ==
    << << "sha256", CHOOSE i \in DOMAIN Contents : Contents[i] = data >> >>

Whitespace == {" ", "\n", "\t", "\r"}

\* str.strip()
RECURSIVE strip(_)
strip(s) ==
    IF Len(s) = 0 THEN s
    ELSE IF s[1] \in Whitespace THEN strip(Tail(s))
    ELSE IF s[Len(s)] \in Whitespace THEN strip(SubSeq(s, 1, Len(s) - 1))
    ELSE s

\* a path without a sidecar file
NoFile == << "absent" >>

\* the text generate_hash writes to <path>.sha256
SidecarText(p) ==
    << "Hash sha256 for file: ", p, "\n" >> \o hexdigest(Files[p].chunks)

\* the sidecar files that exist before the program starts: b has a digest
\* of its current bytes, d and e a digest of earlier bytes
InitialSidecars ==
    [ a |-> NoFile,
      b |-> hexdigest(Files["b"].chunks) \o << "\n" >>,
      c |-> NoFile,
      d |-> hexdigest(OldBytesOfD),
      e |-> hexdigest(OldBytesOfD) ]

\* destinations the save dialog can return, and whether open(.., 'w') works
Dests == [ out |-> TRUE, ro |-> FALSE ]

\* the paths the generate_hash dialog returns here: a readable file
\* without a sidecar and an unreadable one
HashPaths == {"a", "c"}

HelpStates == {"present", "missing", "unreadable"}

\* ------------------------------------------------------------------- state
\* list objects: the list of __init__, and per worker the list created at
\* line 180 and the list created at line 186
InitList == << 0, "init" >>
AccList(w) == << w, "acc" >>
ResList(w) == << w, "res" >>
Objects == {InitList} \cup {AccList(w) : w \in Runs} \cup {ResList(w) : w \in Runs}

VARIABLES
    emails,      \* self.emails: reference to a list object
    heap,        \* contents of the list objects
    sidecar,     \* contents of <path>.sha256, or NoFile
    outFiles,    \* contents of the result files, or NoFile
    progress,    \* self.progress: "running" or "stopped"
    notice,      \* what the user was shown last: a message box, or the
                 \* traceback of an exception no handler caught
    ui,          \* where the UI thread is: "idle" or inside the save dialog
    started,     \* number of worker threads created
    pc,          \* per worker: position in find_emails
    file_path,   \* per worker: the argument of find_emails
    chunk,       \* per worker: index of the next chunk of df
    ref,         \* per worker: the list reference loaded from self.emails
    outcome      \* per worker: "none", "succeeded" or "failed"

vars == << emails, heap, sidecar, outFiles, progress, notice, ui,
           started, pc, file_path, chunk, ref, outcome >>

fsVars == << sidecar, outFiles >>
workerVars == << started, pc, file_path, chunk, ref, outcome >>

\* an exception propagated out of a UI callback
Uncaught == << "Traceback" >>

\* the message boxes of lines 99 and 222
HashMismatch == << "Hash Mismatch" >>
NoEmailsToSave == << "No Results", "No emails to save." >>

\* the value of self.emails
EmailsValue == heap[emails]

\* no list reference on a worker's evaluation stack
NoRef == << 0, "none" >>

\* reference counting: a list no reference leads to is freed.  h, e, r, p
\* are the heap, self.emails, the workers' loaded references and positions
Collect(h, e, r, p) ==
    [o \in Objects |->
        IF \/ o = e
           \/ \E w \in Runs : r[w] = o
           \/ \E w \in Runs : p[w] = "store" /\ o = ResList(w)
        THEN h[o] ELSE << >>]

InFlight(w) == pc[w] \notin {"new", "done"}

Init ==
    /\ emails = InitList
    /\ heap = [o \in Objects |-> << >>]
    /\ sidecar = InitialSidecars
    /\ outFiles = [d \in DOMAIN Dests |-> NoFile]
    /\ progress = "stopped"
    /\ notice = << "none" >>
    /\ ui = "idle"
    /\ started = 0
    /\ pc = [w \in Runs |-> "new"]
    /\ file_path = [w \in Runs |-> Cancelled]
    /\ chunk = [w \in Runs |-> 1]
    /\ ref = [w \in Runs |-> NoRef]
    /\ outcome = [w \in Runs |-> "none"]

\* ------------------------------------------------------------ UI callbacks
\* verify_hash: the comparison of lines 146-155 (both files readable)
verify_hash(p, hashText) == hexdigest(Files[p].chunks) = strip(hashText)

\* open_file, dialog cancelled
OpenFileCancel ==
    /\ ui = "idle"
    /\ UNCHANGED << emails, heap, fsVars, progress, notice, ui, workerVars >>

\* open_file with a sidecar present whose verification raises or fails
OpenFileBlocked(p) ==
    /\ ui = "idle"
    /\ sidecar[p] # NoFile
    /\ IF ~Files[p].readable
         THEN notice' = Uncaught
         ELSE /\ ~verify_hash(p, sidecar[p])
              /\ notice' = HashMismatch
    /\ UNCHANGED << emails, heap, fsVars, progress, ui, workerVars >>

\* open_file as it would be without the `return` of line 101
OpenFileStartUngated(p) ==
    /\ ui = "idle"
    /\ started < MaxRuns
    /\ sidecar[p] # NoFile => Files[p].readable
    /\ progress' = "running"
    /\ started' = started + 1
    /\ pc' = [pc EXCEPT ![started + 1] = "start"]
    /\ file_path' = [file_path EXCEPT ![started + 1] = p]
    /\ UNCHANGED << emails, heap, fsVars, notice, ui, chunk, ref, outcome >>

\* open_file reaching lines 102-105: progress started, worker thread created
OpenFileStart(p) ==
    /\ ui = "idle"
    /\ started < MaxRuns
    /\ sidecar[p] # NoFile => Files[p].readable /\ verify_hash(p, sidecar[p])
    /\ progress' = "running"
    /\ started' = started + 1
    /\ pc' = [pc EXCEPT ![started + 1] = "start"]
    /\ file_path' = [file_path EXCEPT ![started + 1] = p]
    /\ UNCHANGED << emails, heap, fsVars, notice, ui, chunk, ref, outcome >>

open_file ==
    \/ OpenFileCancel
    \/ \E p \in Paths : OpenFileBlocked(p) \/ OpenFileStart(p)

generate_hash ==
    /\ ui = "idle"
    /\ \E p \in HashPaths \cup {Cancelled} :
         IF p = Cancelled
           THEN UNCHANGED << sidecar, notice >>
         ELSE IF ~Files[p].readable
           THEN notice' = Uncaught /\ sidecar' = sidecar
         ELSE /\ sidecar' = [sidecar EXCEPT ![p] = SidecarText(p)]
              /\ notice' = << "Hash Generated" >>
    /\ UNCHANGED << emails, heap, outFiles, progress, ui, workerVars >>

\* save_results as it would be without the check of lines 221-224
SaveResultsUnchecked ==
    /\ ui = "idle"
    /\ ui' = "asksaveasfilename"
    /\ UNCHANGED << emails, heap, fsVars, progress, notice, workerVars >>

\* save_results up to the save dialog (lines 221-226)
save_results ==
    /\ ui = "idle"
    /\ IF EmailsValue = << >>
         THEN notice' = NoEmailsToSave /\ ui' = ui
         ELSE notice' = notice /\ ui' = "asksaveasfilename"
    /\ UNCHANGED << emails, heap, fsVars, progress, workerVars >>

\* save_results from the answer of the save dialog on (lines 227-235)
SaveDialogAnswer ==
    /\ ui = "asksaveasfilename"
    /\ ui' = "idle"
    /\ \E dst \in DOMAIN Dests \cup {Cancelled} :
         IF dst = Cancelled
           THEN UNCHANGED << outFiles, notice >>
         ELSE IF Dests[dst]
           THEN /\ outFiles' = [outFiles EXCEPT ![dst] = join(EmailsValue)]
                /\ notice' = << "Saved" >>
         ELSE /\ outFiles' = outFiles
              /\ notice' = << "Error", "Could not save the file" >>
    /\ UNCHANGED << emails, heap, sidecar, progress, workerVars >>

show_help ==
    /\ ui = "idle"
    /\ \E help \in HelpStates :
         notice' = IF help = "unreadable" THEN Uncaught ELSE notice
    /\ UNCHANGED << emails, heap, fsVars, progress, ui, workerVars >>

\* ------------------------------------------------------------- find_emails
\* lines 177-180: pd.read_csv opens the file; self.emails = []
Start(w) ==
    /\ pc[w] = "start"
    /\ IF Files[file_path[w]].readable
         THEN /\ emails' = AccList(w)
              /\ pc' = [pc EXCEPT ![w] = "loop"]
         ELSE /\ emails' = emails
              /\ pc' = [pc EXCEPT ![w] = "except"]
    /\ heap' = Collect(heap, emails', ref, pc')
    /\ UNCHANGED << fsVars, progress, notice, ui,
                    started, file_path, chunk, ref, outcome >>

\* line 182 and the load of self.emails at line 184 (or at line 186 when
\* df is exhausted); reading the next chunk may raise
Loop(w) ==
    /\ pc[w] = "loop"
    /\ LET f == Files[file_path[w]]
       IN  IF chunk[w] = f.failAt
             THEN pc' = [pc EXCEPT ![w] = "except"] /\ ref' = ref
           ELSE IF chunk[w] > Len(f.chunks)
             THEN pc' = [pc EXCEPT ![w] = "set"] /\ ref' = [ref EXCEPT ![w] = emails]
           ELSE pc' = [pc EXCEPT ![w] = "extend"] /\ ref' = [ref EXCEPT ![w] = emails]
    /\ UNCHANGED << emails, heap, fsVars, progress, notice, ui,
                    started, file_path, chunk, outcome >>

\* line 184: extend the loaded list with the matches of the chunk
Extend(w) ==
    /\ pc[w] = "extend"
    /\ chunk' = [chunk EXCEPT ![w] = @ + 1]
    /\ pc' = [pc EXCEPT ![w] = "loop"]
    /\ ref' = [ref EXCEPT ![w] = NoRef]
    /\ heap' = Collect([heap EXCEPT ![ref[w]] =
                           @ \o ChunkMatches[file_path[w]][chunk[w]]],
                      emails, ref', pc')
    /\ UNCHANGED << emails, fsVars, progress, notice, ui,
                    started, file_path, outcome >>

\* line 186, right-hand side: list(set(<loaded list>))
Dedup(w) ==
    /\ pc[w] = "set"
    /\ pc' = [pc EXCEPT ![w] = "store"]
    /\ ref' = [ref EXCEPT ![w] = NoRef]
    /\ \E l \in ListsOfSet(heap[ref[w]]) :
         heap' = Collect([heap EXCEPT ![ResList(w)] = l], emails, ref', pc')
    /\ UNCHANGED << emails, fsVars, progress, notice, ui,
                    started, file_path, chunk, outcome >>

\* line 186, the assignment to self.emails
Store(w) ==
    /\ pc[w] = "store"
    /\ emails' = ResList(w)
    /\ pc' = [pc EXCEPT ![w] = "report"]
    /\ heap' = Collect(heap, emails', ref, pc')
    /\ UNCHANGED << fsVars, progress, notice, ui,
                    started, file_path, chunk, ref, outcome >>

\* lines 188-195: show and report the result
Report(w) ==
    /\ pc[w] = "report"
    /\ notice' = << "Results", Len(EmailsValue) >>
    /\ outcome' = [outcome EXCEPT ![w] = "succeeded"]
    /\ pc' = [pc EXCEPT ![w] = "finally"]
    /\ UNCHANGED << emails, heap, fsVars, progress, ui,
                    started, file_path, chunk, ref >>

\* lines 196-199: the except clause
Except(w) ==
    /\ pc[w] = "except"
    /\ notice' = << "Error", "An error occurred" >>
    /\ outcome' = [outcome EXCEPT ![w] = "failed"]
    /\ pc' = [pc EXCEPT ![w] = "finally"]
    /\ UNCHANGED << emails, heap, fsVars, progress, ui,
                    started, file_path, chunk, ref >>

\* progress.stop() as the last statement of the try block, not in a finally
StopOnSuccessOnly(w) ==
    /\ pc[w] = "finally"
    /\ progress' = IF outcome[w] = "succeeded" THEN "stopped" ELSE progress
    /\ pc' = [pc EXCEPT ![w] = "done"]
    /\ UNCHANGED << emails, heap, fsVars, notice, ui,
                    started, file_path, chunk, ref, outcome >>

\* lines 200-201: the finally clause
Finally(w) ==
    /\ pc[w] = "finally"
    /\ progress' = "stopped"
    /\ pc' = [pc EXCEPT ![w] = "done"]
    /\ UNCHANGED << emails, heap, fsVars, notice, ui,
                    started, file_path, chunk, ref, outcome >>

find_emails(w) ==
    \/ Start(w) \/ Loop(w) \/ Extend(w) \/ Dedup(w) \/ Store(w)
    \/ Report(w) \/ Except(w) \/ Finally(w)

Next ==
    \/ open_file
    \/ generate_hash
    \/ save_results
    \/ SaveDialogAnswer
    \/ show_help
    \/ \E w \in Runs : find_emails(w)

Spec == Init /\ [][Next]_vars

\* a started worker thread keeps running until find_emails returns
LiveSpec == Spec /\ \A w \in Runs : WF_vars(find_emails(w))

\* ------------------------------------------------------------ properties
\* every match of the pattern in the chunks of path p
Matches(p) ==
    UNION {ToSet(ChunkMatches[p][i]) : i \in 1..Len(Files[p].chunks)}

\* the matches worker w has taken from the chunks it scanned so far
PartialMatches(w) ==
    UNION {ToSet(ChunkMatches[file_path[w]][i]) : i \in 1..(chunk[w] - 1)}

NoRunInFlight == \A w \in Runs : ~InFlight(w)

\* C1: for every source file p, once generate_hash has written p's sidecar
\* and p is unchanged, verify_hash(p, p.sha256) returns True.
C1_DigestRoundTrip ==
    \A p \in Paths :
        Files[p].readable /\ sidecar[p] = SidecarText(p)
            => verify_hash(p, sidecar[p])

\* C2: a worker thread is created and the progress bar started only by a
\* step that creates exactly one thread for a path whose sidecar, if one
\* exists, verifies; and the step that reports a hash mismatch leaves the
\* threads, the progress bar and the stored result as they were.
C2_HashGateFailsClosed ==
    [][ /\ (started' # started \/ (progress = "stopped" /\ progress' = "running"))
            => /\ started' = started + 1
               /\ LET p == file_path'[started']
                  IN  \/ sidecar[p] = NoFile
                      \/ Files[p].readable /\ verify_hash(p, sidecar[p])
        /\ (notice' = HashMismatch /\ notice # HashMismatch)
            => UNCHANGED << emails, heap, progress, workerVars >> ]_vars

\* C2 witness: a mismatch was reported for a file whose sidecar holds a
\* stale digest, and no thread was created and the progress bar is stopped
C2_Witness ==
    /\ notice = HashMismatch
    /\ sidecar = InitialSidecars
    /\ started = 0
    /\ progress = "stopped"

\* C3: after a failed run, the stored result holds none of the matches the
\* run had accumulated before it failed.
C3_PartialResultsDiscarded ==
    \A w \in Runs :
        outcome[w] = "failed" => ToSet(EmailsValue) \cap PartialMatches(w) = {}

\* C4: the step in which a run stores its result leaves the stored result
\* equal to exactly the set of matches of the run's file, whatever other
\* runs are in flight.
C4_ExactResult ==
    [][ \A w \in Runs :
          pc[w] = "store" /\ pc'[w] = "report"
            => ToSet(heap'[emails']) = Matches(file_path[w]) ]_vars

\* C5: whenever no extraction is in flight, the stored result holds each
\* address at most once.
C5_NoDuplicates == NoRunInFlight => NoDuplicates(EmailsValue)

\* C6: save_results invoked while the stored result is empty reports
\* "No emails to save.", does not open the save dialog, writes no file and
\* leaves the stored result unchanged; the save dialog is never opened on
\* an empty result.
C6_EmptySaveIsNoOp ==
    [][ /\ (save_results /\ EmailsValue = << >>)
            => /\ notice' = NoEmailsToSave
               /\ UNCHANGED << ui, outFiles, emails, heap >>
        /\ (ui = "idle" /\ ui' = "asksaveasfilename") => EmailsValue # << >> ]_vars

\* C6 witness: "No emails to save." was reported after a run that left the
\* result empty, and no result file exists
C6_Witness ==
    /\ notice = NoEmailsToSave
    /\ EmailsValue = << >>
    /\ ui = "idle"
    /\ \E w \in Runs : pc[w] = "done"
    /\ \A d \in DOMAIN Dests : outFiles[d] = NoFile

\* C7: no exception escapes a UI callback uncaught.
C7_NoUncaughtException == notice # Uncaught

\* C8: at most one worker thread is executing find_emails.
C8_AtMostOneInFlight == Cardinality({w \in Runs : InFlight(w)}) <= 1

\* C9: a save_results step that finds the result non-empty or writes the
\* result file never reads the accumulator list of a run in flight.
C9_NoIntermediateObserved ==
    [][ ((ui = "idle" /\ ui' = "asksaveasfilename") \/ outFiles' # outFiles)
          => \A w \in Runs : InFlight(w) => emails # AccList(w) ]_vars

\* C10: every started worker eventually returns from find_emails with the
\* outcome succeeded or failed, the step in which it returns stops the
\* progress bar, the progress bar is stopped whenever no run is in flight,
\* and whether open_file can start a run does not depend on earlier runs.
C10_RunsReturnToIdle ==
    /\ \A w \in Runs :
          [](InFlight(w) => <>(pc[w] = "done" /\ outcome[w] \in {"succeeded", "failed"}))
    /\ [][\A w \in Runs : pc[w] # "done" /\ pc'[w] = "done" => progress' = "stopped"]_vars
    /\ [](NoRunInFlight => progress = "stopped")
    /\ [](ui = "idle" /\ started < MaxRuns => ENABLED OpenFileStart("c"))

\* C10 witness: one run has failed, another has succeeded, none is in flight
\* and the progress bar is stopped
C10_Witness ==
    /\ NoRunInFlight
    /\ \E w \in Runs : outcome[w] = "failed"
    /\ \E w \in Runs : outcome[w] = "succeeded"
    /\ progress = "stopped"
====
